---- MODULE Spec2Model ----
(***************************************************************************)
(* Models of the Python programs under src/python that the claims are      *)
(* about, each with a state machine of its own:                            *)
(*   Spec           process_and_analyze_data in its two versions,          *)
(*                  large_function.py and refactored_function.py, called   *)
(*                  on the same input file, extension and config           *)
(*   SpecCounter    nested_functions.py: a counter of create_counter       *)
(*   SpecMemo       language_features.py: functions wrapped by memoize     *)
(*   SpecDocument   class_hierarchy.py: a Document (an Entity)             *)
(*   SpecPerson     language_features.py: a Person and its properties      *)
(*   SpecTyped      language_features.py: TypedProperty and RangeProperty  *)
(*   SpecProcessor  complex_functions.py: DataProcessor.process            *)
(* A state machine runs one program and holds the variables of the others  *)
(* at rest.  Next to the state of a program, a log variable keeps what the *)
(* caller has seen of its calls: arguments, return values, exceptions.     *)
(*                                                                         *)
(* Python values are modelled as follows.                                  *)
(*   str / int     a tagged record, PyStr(s) or PyInt(n); a plain string   *)
(*                 or number where a program handles one type only         *)
(*   dict          a function on a finite set of strings                   *)
(*   list          a sequence                                              *)
(*   a message     the string the f-string builds (\o is concatenation)    *)
(*   a fraction    [num, den] in lowest terms (averages, variances)        *)
(* Floats do not occur: no modelled string holds a '.', so the float       *)
(* branch of the numeric conversions is never taken.                       *)
(***************************************************************************)
EXTENDS Integers, Sequences, FiniteSets, TLC

VARIABLES
    exists,        \* os.path.exists(input_path)
    configIsDict,  \* isinstance(config, dict)
    extension,     \* os.path.splitext(input_path)[1], as written in the path
    content,       \* what is in the input file
    config,        \* the config dictionary (when it is one)
    writable,      \* whether open(output_path, 'w') succeeds
    pcLarge,       \* "ready", "returned" or "raised": the call of the large function
    outLarge,      \* what the large function returned and wrote
    pcRefactored,  \* the same for the refactored function
    outRefactored,
    count,         \* nested_functions.py: the count variable a counter closes over
    counterLog,    \* the calls made on the counter, and the last of them
    cache,         \* language_features.py: the cache of a memoized function
    factorialCache,\* the cache of the memoized factorial
    memoLog,       \* the calls made on the two memoized functions
    document,      \* class_hierarchy.py: the fields of a Document
    documentLog,   \* the calls made on the document, and the last of them
    person,        \* language_features.py: the fields of a Person
    personLog,     \* the last assignment or read on the person
    typed,         \* language_features.py: the attributes of two instances each
                   \* of TypedObject and of a class with a RangeProperty
    typedLog,      \* the last assignment or read on them
    processor,     \* complex_functions.py: the fields of a DataProcessor
    processorLog   \* the calls of process() made on it

pipelineVars == <<exists, configIsDict, extension, content, config, writable,
                  pcLarge, outLarge, pcRefactored, outRefactored>>
counterVars == <<count, counterLog>>
memoVars == <<cache, factorialCache, memoLog>>
documentVars == <<document, documentLog>>
personVars == <<person, personLog>>
typedVars == <<typed, typedLog>>
processorVars == <<processor, processorLog>>

vars == <<pipelineVars, counterVars, memoVars, documentVars, personVars,
          typedVars, processorVars>>

\* What the operations of one program leave alone: the other programs.
notPipeline == <<counterVars, memoVars, documentVars, personVars, typedVars, processorVars>>
notCounter == <<pipelineVars, memoVars, documentVars, personVars, typedVars, processorVars>>
notMemo == <<pipelineVars, counterVars, documentVars, personVars, typedVars, processorVars>>
notDocument == <<pipelineVars, counterVars, memoVars, personVars, typedVars, processorVars>>
notPerson == <<pipelineVars, counterVars, memoVars, documentVars, typedVars, processorVars>>
notTyped == <<pipelineVars, counterVars, memoVars, documentVars, personVars, processorVars>>
notProcessor == <<pipelineVars, counterVars, memoVars, documentVars, personVars, typedVars>>

\* ------------------------------------------------------------------ bounds

\* Data lines of a CSV or TXT file, items of a JSON list.
MaxRows == 2

\* Calls made on one counter (the calls of __main__ are eight).
MaxCounterCalls == 8

\* Calls made on the memoized functions.
MaxMemoCalls == 3

\* The largest argument factorial is called with (__main__ calls factorial(5)).
MaxN == 5

\* Calls of update_content made on one document.
MaxUpdates == 3

\* Records in the data of a DataProcessor, and calls of process() on it.
MaxData == 3
MaxProcessCalls == 2

\* ------------------------------------------------------------ Python values

PyStr(s) == [t |-> "str", s |-> s, n |-> 0]
PyInt(n) == [t |-> "int", s |-> "", n |-> n]

\* {} (and, being the same TLA+ value, [])
EmptyDict == [k \in {} |-> TRUE]

\* d[k] = v on a dict
Put(d, k, v) == [x \in (DOMAIN d) \cup {k} |-> IF x = k THEN v ELSE d[x]]

\* d.update(e)
Update(d, e) == [x \in (DOMAIN d) \cup (DOMAIN e) |-> IF x \in DOMAIN e THEN e[x] ELSE d[x]]

\* An item met when iterating over data: a dict (an element of a list of
\* records) or a str (a key, when data is a JSON object and not a list).
DictItem(r) == [k |-> "dict", r |-> r, s |-> ""]
StrItem(s) == [k |-> "str", r |-> EmptyDict, s |-> s]

\* data: a list of items, or the dict a JSON object file loads as
ListData(items) == [shape |-> "list", items |-> items, obj |-> EmptyDict]
DictData(obj) == [shape |-> "dict", items |-> <<>>, obj |-> obj]

\* The strings that occur in files, and the column names.  No name is a
\* substring of another one, so `name in key` on two strs is equality.
FieldOrder == <<"age", "score", "years", "points">>
Header == <<"age", "score">>
StrValues == {"25", "x"}

\* str.isdigit()
IsDigit(s) == s \in {"25", "20", "30"}

\* int(s) on a str: [ok, n]; not ok stands for ValueError
ParseInt(s) ==
    CASE s = "25" -> [ok |-> TRUE, n |-> 25]
      [] s = "20" -> [ok |-> TRUE, n |-> 20]
      [] s = "30" -> [ok |-> TRUE, n |-> 30]
      [] OTHER -> [ok |-> FALSE, n |-> 0]

\* str.lower() on the output formats
Lower(s) == IF s = "JSON" THEN "json" ELSE s

RECURSIVE SeqSum(_)
SeqSum(s) == IF s = <<>> THEN 0 ELSE Head(s) + SeqSum(Tail(s))

RECURSIVE Gcd(_, _)
Gcd(a, b) == IF b = 0 THEN a ELSE Gcd(b, a % b)

\* The fraction a / b (b > 0, a >= 0) in lowest terms.
Frac(a, b) == LET g == Gcd(a, b) IN [num |-> a \div g, den |-> b \div g]

\* The keys of dict d in iteration order (the order of FieldOrder).
RECURSIVE KeysFrom(_, _)
KeysFrom(d, i) ==
    IF i > Len(FieldOrder) THEN <<>>
    ELSE (IF FieldOrder[i] \in DOMAIN d THEN <<FieldOrder[i]>> ELSE <<>>) \o KeysFrom(d, i + 1)
Keys(d) == KeysFrom(d, 1)

\* for item in data
IterItems(data) ==
    IF data.shape = "list" THEN data.items
    ELSE [i \in 1..Len(Keys(data.obj)) |-> StrItem(Keys(data.obj)[i])]

\* len(data)
DataLen(data) ==
    IF data.shape = "list" THEN Len(data.items) ELSE Cardinality(DOMAIN data.obj)

\* Python's dict iteration follows insertion order; the model iterates every
\* dict in the order of FieldOrder.

\* ','.join(values): the text of a line of a TXT file after strip()
RECURSIVE Join(_)
Join(values) ==
    IF values = <<>> THEN ""
    ELSE IF Len(values) = 1 THEN Head(values)
    ELSE Head(values) \o "," \o Join(Tail(values))

\* sorted(s) on a list of ints
RECURSIVE SortInts(_)
SortInts(s) ==
    IF s = <<>> THEN <<>>
    ELSE LET i == CHOOSE i \in 1..Len(s) : \A j \in 1..Len(s) : s[i] <= s[j]
         IN <<s[i]>> \o SortInts(SubSeq(s, 1, i - 1) \o SubSeq(s, i + 1, Len(s)))

\* ------------------------------------------------------------------ inputs

InputPath == "input" \o extension
OutputPath == "output.json"

\* str(e) of the exceptions the file operations raise
OpenError == "[Errno 13] Permission denied"
JsonError == "Expecting value: line 1 column 1 (char 0)"
IndexError == "list index out of range"

\* config.get(key, default)
Get(d, k, default) == IF k \in DOMAIN d THEN d[k] ELSE default

\* A filter criterion: a plain value (the simple equality check) or a dict of
\* operators; of the operators, eq, ne, gt and lt are modelled.
Simple(v) == [simple |-> TRUE, value |-> v, ops |-> EmptyDict]
Ops(o) == [simple |-> FALSE, value |-> PyInt(0), ops |-> o]

Mappings ==
    { EmptyDict,
      [k \in {"age"} |-> "years"],
      [k \in {"age", "score"} |-> IF k = "age" THEN "years" ELSE "points"] }

Filters ==
    { EmptyDict,
      [k \in {"years"} |-> Ops([o \in {"gt"} |-> PyInt(20)])],
      [k \in {"age"} |-> Simple(PyInt(25))] }

AggregationFields == { <<>>, <<"years", "score">> }

OutputFormats == {"json", "JSON", "xml"}

Configs ==
    {EmptyDict} \cup
    { [column_mapping |-> m, filter_criteria |-> f, aggregation_fields |-> a,
       include_statistics |-> s, output_format |-> o] :
        m \in Mappings, f \in Filters, a \in AggregationFields,
        s \in BOOLEAN, o \in OutputFormats }

SeqsUpTo(S, n) == UNION { [1..k -> S] : k \in 0..n }

\* A CSV file: csv.DictReader gives every row the header's keys, str values.
CsvRows == [ {Header[i] : i \in 1..Len(Header)} -> {PyStr(v) : v \in StrValues} ]

\* A TXT file: its lines after strip().split(','), the header line first.
\* A data line with one value is malformed.
TxtLines == [1..Len(Header) -> StrValues] \cup {<<"x">>}

\* A JSON file: a list of objects, or one object that is not in a list.
JsonObjects ==
    UNION { [D -> {PyStr("25"), PyInt(30)}] : D \in {{"age"}, {"age", "score"}} }

Contents(ext) ==
    {[kind |-> "unreadable"]} \cup
    CASE ext = ".csv" ->
           { [kind |-> "csv", rows |-> r] : r \in SeqsUpTo(CsvRows, MaxRows) }
      [] ext = ".txt" ->
           { [kind |-> "txt", lines |-> <<>>] } \cup
           { [kind |-> "txt", lines |-> <<Header>> \o l] : l \in SeqsUpTo(TxtLines, MaxRows) }
      [] ext = ".json" ->
           { [kind |-> "json", valid |-> FALSE, doc |-> ListData(<<>>)] } \cup
           { [kind |-> "json", valid |-> TRUE, doc |-> DictData(o)] : o \in JsonObjects } \cup
           { [kind |-> "json", valid |-> TRUE,
              doc |-> ListData([i \in 1..Len(l) |-> DictItem(l[i])])] :
                l \in SeqsUpTo(JsonObjects, MaxRows) }
      [] OTHER -> {}

Extensions == {".csv", ".json", ".txt", ".xml"}

\* ------------------------------------------------- helpers of both versions

\* results["status"] = "error"; results["errors"].append(msg)
Fail(results, msg) ==
    Put(Put(results, "status", "error"), "errors", Append(results["errors"], msg))

\* The exception a step raises, or that it raised none.
NoRaise == [raised |-> FALSE, exc |-> ""]
Raise(exc) == [raised |-> TRUE, exc |-> exc]

\* {header[i]: values[i] for i in range(len(header))}: a repeated column name
\* keeps its last value.
TxtRow(header, values) ==
    [k \in {header[i] : i \in 1..Len(header)} |->
        LET i == CHOOSE i \in 1..Len(header) :
                    header[i] = k /\ \A j \in (i + 1)..Len(header) : header[j] # k
        IN PyStr(values[i])]

\* The loop over lines[1:] of a TXT file: [data, warnings].
RECURSIVE ParseTxtLines(_, _)
ParseTxtLines(header, lines) ==
    IF lines = <<>> THEN [data |-> <<>>, warnings |-> <<>>]
    ELSE LET rest == ParseTxtLines(header, Tail(lines))
             values == Head(lines)
         IN IF Len(values) = Len(header)
            THEN [data |-> <<DictItem(TxtRow(header, values))>> \o rest.data,
                  warnings |-> rest.warnings]
            ELSE [data |-> rest.data,
                  warnings |-> <<"Skipped malformed line: " \o Join(values)>> \o rest.warnings]

\* The conversion of numeric strings before the comparison.  Without a '.'
\* in the string the test is value.isdigit() and the conversion int(value).
convert_value_if_numeric(value) ==
    IF value.t # "str" THEN value
    ELSE IF IsDigit(value.s) THEN PyInt(ParseInt(value.s).n)
    ELSE value

\* isinstance(value, (int, float))
IsNumber(value) == value.t = "int"

\* The tests of one criterion on a converted value: TRUE when none of them
\* excludes the item.
CriteriaAccept(value, criteria) ==
    IF criteria.simple THEN value = criteria.value
    ELSE LET c == criteria.ops IN
         /\ ~("eq" \in DOMAIN c /\ value # c["eq"])
         /\ ~("ne" \in DOMAIN c /\ value = c["ne"])
         /\ ~("gt" \in DOMAIN c /\ ~(IsNumber(value) /\ value.n > c["gt"].n))
         /\ ~("lt" \in DOMAIN c /\ ~(IsNumber(value) /\ value.n < c["lt"].n))

\* The numeric values of `field` over a list of dict items, in order.
RECURSIVE extract_numeric_values(_, _)
extract_numeric_values(items, field) ==
    IF items = <<>> THEN <<>>
    ELSE LET r == Head(items).r
             rest == extract_numeric_values(Tail(items), field)
         IN IF field \notin DOMAIN r THEN rest
            ELSE IF r[field].t = "str"
                 THEN (IF ParseInt(r[field].s).ok
                       THEN <<ParseInt(r[field].s).n>> \o rest
                       ELSE rest)
                 ELSE <<r[field].n>> \o rest

\* statistics.median, statistics.variance and statistics.stdev of ints, exact.
Median(vals) ==
    LET s == SortInts(vals)
        n == Len(s)
    IN IF n % 2 = 1 THEN Frac(s[(n + 1) \div 2], 1)
       ELSE Frac(s[n \div 2] + s[n \div 2 + 1], 2)

Variance(vals) ==
    LET n == Len(vals)
        squares == [i \in 1..n |-> vals[i] * vals[i]]
    IN Frac(n * SeqSum(squares) - SeqSum(vals) * SeqSum(vals), n * (n - 1))

Stdev(vals) == [sqrt |-> Variance(vals)]

\* The statistics of a non-empty list of numeric values.
calculate_field_statistics(vals) ==
    LET s == SortInts(vals)
        stats == [count |-> Len(vals), sum |-> SeqSum(vals),
                  average |-> Frac(SeqSum(vals), Len(vals)),
                  min |-> s[1], max |-> s[Len(s)]]
    IN IF Len(vals) > 1
       THEN Update(stats, [median |-> Median(vals), stddev |-> Stdev(vals),
                           variance |-> Variance(vals)])
       ELSE stats

\* field -> statistics, for the fields that have numeric values
AggregateFields(items, fields) ==
    [f \in {g \in {fields[i] : i \in 1..Len(fields)} : extract_numeric_values(items, g) # <<>>}
       |-> calculate_field_statistics(extract_numeric_values(items, f))]

\* key -> the type of its first value and the number of items that have it
compute_field_types(items) ==
    [k \in UNION {DOMAIN items[i].r : i \in 1..Len(items)} |->
        LET first == CHOOSE i \in 1..Len(items) :
                        k \in DOMAIN items[i].r /\ \A j \in 1..(i - 1) : k \notin DOMAIN items[j].r
        IN [type |-> items[first].r[k].t,
            count |-> Cardinality({i \in 1..Len(items) : k \in DOMAIN items[i].r})]]

\* What a call leaves in the output file.
NoOutput == [written |-> FALSE]
Output(results, data) == [written |-> TRUE, metadata |-> results, data |-> data]

InitialResults ==
    [status |-> "success", input_file |-> InputPath, output_file |-> OutputPath,
     records_processed |-> 0, errors |-> <<>>, warnings |-> <<>>,
     statistics |-> EmptyDict]

\* ------------------------------------------- large_function.py, by section

\* Read and parse the input file: [failed, results, data].
Large_Read(results) ==
    LET error(msg) == [failed |-> TRUE, results |-> Fail(results, msg), data |-> ListData(<<>>)]
        read(type, data, warnings) ==
            [failed |-> FALSE,
             results |-> Put(Put(results, "warnings", results["warnings"] \o warnings),
                             "file_type", type),
             data |-> data]
    IN IF extension \notin {".csv", ".json", ".txt"}
       THEN error("Unsupported file extension: " \o extension)
       ELSE IF content.kind = "unreadable"
       THEN error("Error reading input file: " \o OpenError)
       ELSE IF extension = ".csv"
       THEN read("csv", ListData([i \in 1..Len(content.rows) |-> DictItem(content.rows[i])]), <<>>)
       ELSE IF extension = ".json"
       THEN (IF content.valid THEN read("json", content.doc, <<>>)
             ELSE error("Error reading input file: " \o JsonError))
       ELSE IF content.lines = <<>>
       THEN error("Error reading input file: " \o IndexError)
       ELSE LET parsed == ParseTxtLines(Head(content.lines), Tail(content.lines))
            IN read("txt", ListData(parsed.data), parsed.warnings)

\* The loop over column_mapping.items() for one dict item: a mapped key is
\* renamed; each old key the item lacks copies the item's unmapped fields.
RECURSIVE Large_MapKeys(_, _, _, _)
Large_MapKeys(r, mapping, oldKeys, mapped) ==
    IF oldKeys = <<>> THEN mapped
    ELSE LET old == Head(oldKeys)
         IN Large_MapKeys(r, mapping, Tail(oldKeys),
                IF old \in DOMAIN r
                THEN Put(mapped, mapping[old], r[old])
                ELSE Update(mapped, [k \in (DOMAIN r) \ (DOMAIN mapping) |-> r[k]]))

Large_MapItem(item, mapping) ==
    DictItem(Large_MapKeys(item.r, mapping, Keys(mapping), EmptyDict))

\* Apply column mapping if provided: [raise, data].  On a str item,
\* `old_key in item` is a substring test and item[old_key] a TypeError; when
\* it is no substring, item.items() is an AttributeError.
Large_Map(data, mapping) ==
    LET items == IterItems(data) IN
    IF mapping = EmptyDict THEN [raise |-> NoRaise, data |-> data]
    ELSE IF \E i \in 1..Len(items) : items[i].k = "str"
    THEN LET i == CHOOSE i \in 1..Len(items) :
                    items[i].k = "str" /\ \A j \in 1..(i - 1) : items[j].k # "str"
         IN [raise |-> Raise(IF Head(Keys(mapping)) = items[i].s
                             THEN "TypeError" ELSE "AttributeError"),
             data |-> data]
    ELSE [raise |-> NoRaise,
          data |-> ListData([i \in 1..Len(items) |-> Large_MapItem(items[i], mapping)])]

\* Whether the filter loop keeps a dict item: a criterion on a field the item
\* lacks is skipped.
Large_Include(item, filter_criteria) ==
    \A field \in DOMAIN filter_criteria :
        field \in DOMAIN item.r =>
            CriteriaAccept(convert_value_if_numeric(item.r[field]), filter_criteria[field])

\* Apply filtering if criteria provided: [raise, results, data].  On a str
\* item, a field that is a substring of it makes item[field] a TypeError.
Large_Filter(results, data, filter_criteria) ==
    LET items == IterItems(data)
        kept == SelectSeq(items, LAMBDA it : Large_Include(it, filter_criteria))
    IN IF filter_criteria = EmptyDict
       THEN [raise |-> NoRaise, results |-> results, data |-> data]
       ELSE IF \E i \in 1..Len(items) : items[i].k = "str" /\ items[i].s \in DOMAIN filter_criteria
       THEN [raise |-> Raise("TypeError"), results |-> results, data |-> data]
       ELSE [raise |-> NoRaise,
             results |-> Put(Put(results, "filtered_count", Len(kept)),
                             "original_count", DataLen(data)),
             data |-> ListData(kept)]

\* Process numeric fields and calculate aggregations: [raise, results].
Large_Aggregate(results, data, aggregation_fields) ==
    LET items == IterItems(data)
        dicts == SelectSeq(items, LAMBDA it : it.k = "dict")
    IN IF DataLen(data) = 0 \/ aggregation_fields = <<>>
       THEN [raise |-> NoRaise, results |-> results]
       ELSE IF \E i \in 1..Len(items), f \in 1..Len(aggregation_fields) :
                    items[i].k = "str" /\ items[i].s = aggregation_fields[f]
       THEN [raise |-> Raise("TypeError"), results |-> results]
       ELSE [raise |-> NoRaise,
             results |-> Put(results, "aggregations", AggregateFields(dicts, aggregation_fields))]

\* Compute overall statistics: [raise, results].  A str item has no items().
Large_Statistics(results, data, include_stats) ==
    LET items == IterItems(data)
        field_types == compute_field_types(items)
    IN IF ~include_stats \/ DataLen(data) = 0
       THEN [raise |-> NoRaise, results |-> results]
       ELSE IF \E i \in 1..Len(items) : items[i].k = "str"
       THEN [raise |-> Raise("AttributeError"), results |-> results]
       ELSE [raise |-> NoRaise,
             results |-> Put(results, "statistics",
                             [field_types |-> field_types,
                              record_count |-> DataLen(data),
                              field_count |-> Cardinality(DOMAIN field_types)])]

\* Write to output file and return: [results, output].
Large_Write(results, data, output_format) ==
    IF Lower(output_format) = "json"
    THEN (IF writable
          THEN [results |-> Put(results, "records_processed", DataLen(data)),
                output |-> Output(results, data)]
          ELSE [results |-> Fail(results, "Error writing output file: " \o OpenError),
                output |-> NoOutput])
    ELSE [results |-> Fail(results, "Unsupported output format: " \o output_format),
          output |-> NoOutput]

\* What a call ends with: a returned results dictionary, or an exception that
\* reaches the caller.
Returned(results, output) ==
    [raise |-> NoRaise, results |-> results, output |-> output]
Raised(raise) ==
    [raise |-> raise, results |-> EmptyDict, output |-> NoOutput]

Large_process_and_analyze_data ==
    LET results == InitialResults IN
    IF ~exists
    THEN Returned(Fail(results, "Input file does not exist: " \o InputPath), NoOutput)
    ELSE IF ~configIsDict
    THEN Returned(Fail(results, "Configuration must be a dictionary"), NoOutput)
    ELSE
    LET column_mapping == Get(config, "column_mapping", EmptyDict)
        filter_criteria == Get(config, "filter_criteria", EmptyDict)
        aggregation_fields == Get(config, "aggregation_fields", <<>>)
        include_stats == Get(config, "include_statistics", TRUE)
        output_format == Get(config, "output_format", "json")
        rd == Large_Read(results)
    IN IF rd.failed THEN Returned(rd.results, NoOutput) ELSE
    LET mp == Large_Map(rd.data, column_mapping)
    IN IF mp.raise.raised THEN Raised(mp.raise) ELSE
    LET fl == Large_Filter(rd.results, mp.data, filter_criteria)
    IN IF fl.raise.raised THEN Raised(fl.raise) ELSE
    LET ag == Large_Aggregate(fl.results, fl.data, aggregation_fields)
    IN IF ag.raise.raised THEN Raised(ag.raise) ELSE
    LET st == Large_Statistics(ag.results, fl.data, include_stats)
    IN IF st.raise.raised THEN Raised(st.raise) ELSE
    LET wr == Large_Write(st.results, fl.data, output_format)
    IN Returned(wr.results, wr.output)

\* --------------------------------------- refactored_function.py, by function

\* [status, errors]: both checks are made, each adding its error.
validate_inputs ==
    LET e1 == IF ~exists THEN <<"Input file does not exist: " \o InputPath>> ELSE <<>>
        e2 == IF ~configIsDict THEN <<"Configuration must be a dictionary">> ELSE <<>>
    IN [status |-> IF e1 \o e2 = <<>> THEN "success" ELSE "error", errors |-> e1 \o e2]

extract_config_options ==
    [column_mapping |-> Get(config, "column_mapping", EmptyDict),
     filter_criteria |-> Get(config, "filter_criteria", EmptyDict),
     aggregation_fields |-> Get(config, "aggregation_fields", <<>>),
     include_stats |-> Get(config, "include_statistics", TRUE),
     output_format |-> Get(config, "output_format", "json")]

\* The readers: [raised, msg, data, warnings]; raised with str(e) in msg.
ReadOk(data, warnings) == [raised |-> FALSE, msg |-> "", data |-> data, warnings |-> warnings]
ReadRaised(msg) == [raised |-> TRUE, msg |-> msg, data |-> <<>>, warnings |-> <<>>]

read_csv_file ==
    IF content.kind = "unreadable" THEN ReadRaised(OpenError)
    ELSE ReadOk([i \in 1..Len(content.rows) |-> DictItem(content.rows[i])], <<>>)

\* A document that is not a list becomes a list of that one document.
read_json_file ==
    IF content.kind = "unreadable" THEN ReadRaised(OpenError)
    ELSE IF ~content.valid THEN ReadRaised(JsonError)
    ELSE IF content.doc.shape # "list" THEN ReadOk(<<DictItem(content.doc.obj)>>, <<>>)
    ELSE ReadOk(content.doc.items, <<>>)

read_txt_file ==
    IF content.kind = "unreadable" THEN ReadRaised(OpenError)
    ELSE IF content.lines = <<>> THEN ReadRaised(IndexError)
    ELSE LET parsed == ParseTxtLines(Head(content.lines), Tail(content.lines))
         IN ReadOk(parsed.data, parsed.warnings)

\* [raised, msg, data, file_type, warnings]: every exception, the ValueError
\* of an unsupported extension included, leaves as an IOError whose message
\* starts "Error reading input file: ".
read_input_file ==
    LET rd == IF extension = ".csv" THEN read_csv_file
              ELSE IF extension = ".json" THEN read_json_file
              ELSE IF extension = ".txt" THEN read_txt_file
              ELSE ReadRaised("Unsupported file extension: " \o extension)
        file_type == IF extension = ".csv" THEN "csv"
                     ELSE IF extension = ".json" THEN "json" ELSE "txt"
    IN [raised |-> rd.raised,
        msg |-> IF rd.raised THEN "Error reading input file: " \o rd.msg ELSE "",
        data |-> rd.data, file_type |-> file_type, warnings |-> rd.warnings]

\* The mapped keys the item has, in the order of mapping.items().
RECURSIVE MapKeys(_, _, _, _)
MapKeys(r, mapping, oldKeys, mapped) ==
    IF oldKeys = <<>> THEN mapped
    ELSE LET old == Head(oldKeys)
         IN MapKeys(r, mapping, Tail(oldKeys),
                IF old \in DOMAIN r THEN Put(mapped, mapping[old], r[old]) ELSE mapped)

\* One item of apply_column_mapping: the mapped keys, then every unmapped field.
MapItem(item, mapping) ==
    DictItem(Update(MapKeys(item.r, mapping, Keys(mapping), EmptyDict),
                    [k \in (DOMAIN item.r) \ (DOMAIN mapping) |-> item.r[k]]))

apply_column_mapping(data, mapping) ==
    IF mapping = EmptyDict THEN data
    ELSE [i \in 1..Len(data) |-> MapItem(data[i], mapping)]

\* An item lacking a criterion's field does not match.
check_filter_criteria(item, filter_criteria) ==
    \A field \in DOMAIN filter_criteria :
        /\ field \in DOMAIN item.r
        /\ CriteriaAccept(convert_value_if_numeric(item.r[field]), filter_criteria[field])

\* [data, filter_stats]
apply_filtering(data, filter_criteria) ==
    LET filtered_data == SelectSeq(data, LAMBDA it : check_filter_criteria(it, filter_criteria))
    IN IF filter_criteria = EmptyDict
       THEN [data |-> data, filter_stats |-> EmptyDict]
       ELSE [data |-> filtered_data,
             filter_stats |-> [filtered_count |-> Len(filtered_data),
                               original_count |-> Len(data)]]

calculate_aggregations(data, aggregation_fields) ==
    IF data = <<>> \/ aggregation_fields = <<>> THEN EmptyDict
    ELSE AggregateFields(data, aggregation_fields)

compute_overall_statistics(data, include_stats) ==
    IF ~include_stats \/ data = <<>> THEN EmptyDict
    ELSE LET field_types == compute_field_types(data)
         IN [field_types |-> field_types,
             record_count |-> Len(data),
             field_count |-> Cardinality(DOMAIN field_types)]

\* [raised, msg, output]: a ValueError for a format that is not json, the
\* OSError of open() otherwise.
write_output_file(output_data, output_format) ==
    IF Lower(output_format) = "json"
    THEN (IF writable THEN [raised |-> FALSE, msg |-> "", output |-> output_data]
          ELSE [raised |-> TRUE, msg |-> OpenError, output |-> NoOutput])
    ELSE [raised |-> TRUE, msg |-> "Unsupported output format: " \o output_format,
          output |-> NoOutput]

\* Every exception raised inside the try block is caught: ValueError and
\* IOError add str(e) to the errors.
Refactored_process_and_analyze_data ==
    LET results == InitialResults
        validation_results == validate_inputs
    IN IF validation_results.status = "error"
       THEN Returned(Put(Put(results, "status", "error"), "errors",
                         results["errors"] \o validation_results.errors), NoOutput)
       ELSE
    LET options == extract_config_options
        rd == read_input_file
    IN IF rd.raised THEN Returned(Fail(results, rd.msg), NoOutput) ELSE
    LET results3 == Put(Put(results, "file_type", rd.file_type),
                        "warnings", results["warnings"] \o rd.warnings)
        data4 == apply_column_mapping(rd.data, options.column_mapping)
        fl == apply_filtering(data4, options.filter_criteria)
        data == fl.data
        results5 == Update(results3, fl.filter_stats)
        aggregations == calculate_aggregations(data, options.aggregation_fields)
        results6 == IF aggregations # EmptyDict
                    THEN Put(results5, "aggregations", aggregations) ELSE results5
        results7 == Put(results6, "statistics",
                        compute_overall_statistics(data, options.include_stats))
        wr == write_output_file(Output(results7, ListData(data)), options.output_format)
    IN IF wr.raised THEN Returned(Fail(results7, wr.msg), NoOutput)
       ELSE Returned(Put(results7, "records_processed", Len(data)), wr.output)

\* ------------------------------------- nested_functions.py: create_counter

\* What the caller has seen of the counter: the number of calls, the
\* increment and decrement calls since the last reset (or since creation),
\* the last call, the value it returned and the count before it.
CounterCalled(op, ret) ==
    [calls |-> counterLog.calls + 1,
     increments |-> CASE op = "increment" -> counterLog.increments + 1
                      [] op = "reset" -> 0
                      [] OTHER -> counterLog.increments,
     decrements |-> CASE op = "decrement" -> counterLog.decrements + 1
                      [] op = "reset" -> 0
                      [] OTHER -> counterLog.decrements,
     op |-> op, ret |-> ret, before |-> count]

\* counter = create_counter()
create_counter ==
    /\ count = 0
    /\ counterLog = [calls |-> 0, increments |-> 0, decrements |-> 0,
                     op |-> "create_counter", ret |-> 0, before |-> 0]

\* A decrement that stops at zero.
decrement_floor ==
    /\ counterLog.calls < MaxCounterCalls
    /\ count' = IF count > 0 THEN count - 1 ELSE 0
    /\ counterLog' = CounterCalled("decrement", count')
    /\ UNCHANGED notCounter

\* counter["increment"]()
increment ==
    /\ counterLog.calls < MaxCounterCalls
    /\ count' = count + 1
    /\ counterLog' = CounterCalled("increment", count')
    /\ UNCHANGED notCounter

\* counter["decrement"]()
decrement ==
    /\ counterLog.calls < MaxCounterCalls
    /\ count' = count - 1
    /\ counterLog' = CounterCalled("decrement", count')
    /\ UNCHANGED notCounter

\* counter["get_count"]()
get_count ==
    /\ counterLog.calls < MaxCounterCalls
    /\ count' = count
    /\ counterLog' = CounterCalled("get_count", count)
    /\ UNCHANGED notCounter

\* counter["reset"]()
reset ==
    /\ counterLog.calls < MaxCounterCalls
    /\ count' = 0
    /\ counterLog' = CounterCalled("reset", count')
    /\ UNCHANGED notCounter

\* ------------------------------------------ language_features.py: memoize

\* A call f(*args, **kwargs): args is a tuple, kwargs the keyword arguments
\* in the order the call gives them, each a <<name, value>> pair.
WrappedCalls ==
    { [args |-> <<1>>, kwargs |-> <<>>],
      [args |-> <<2>>, kwargs |-> <<>>],
      [args |-> <<1>>, kwargs |-> << <<"a", 1>>, <<"b", 2>> >>],
      [args |-> <<1>>, kwargs |-> << <<"b", 2>>, <<"a", 1>> >>] }

\* What the wrapped function does when it is invoked: it returns a value
\* (not always the same one) or raises.
Returns(v) == [raised |-> FALSE, value |-> v]
Raises == [raised |-> TRUE, value |-> 0]
FuncResults == {Returns(10), Returns(20), Raises}

\* key = (args, tuple(kwargs.items())): a key that keeps the keywords' order
MakeKey_ordered(args, kwargs) == <<args, kwargs>>

\* key = (args, frozenset(kwargs.items()))
MakeKey(args, kwargs) == <<args, {kwargs[i] : i \in 1..Len(kwargs)}>>

\* One invocation of the wrapped function, as the caller's log keeps it.
Invocation(args, kwargs, result) ==
    [args |-> args, kwargs |-> kwargs, raised |-> result.raised, value |-> result.value]

\* wrapper(*args, **kwargs) around a function whose invocation gives result:
\* the cache it leaves, what it returns or raises, the invocations it made.
wrapper(c, args, kwargs, result) ==
    LET key == MakeKey(args, kwargs) IN
    IF key \notin DOMAIN c THEN
        IF result.raised
        THEN [cache |-> c, ret |-> result,
              invoked |-> <<Invocation(args, kwargs, result)>>]
        ELSE LET c2 == Put(c, key, result.value)
             IN [cache |-> c2, ret |-> Returns(c2[key]),
                 invoked |-> <<Invocation(args, kwargs, result)>>]
    ELSE [cache |-> c, ret |-> Returns(c[key]), invoked |-> <<>>]

\* The calls of factorial: factorial(n) and factorial(n=n).
FactorialCalls ==
    { [args |-> <<n>>, kwargs |-> <<>>] : n \in 1..MaxN } \cup
    { [args |-> <<>>, kwargs |-> << <<"n", 2>> >>] }

\* factorial = memoize(factorial): the wrapper around the recursive function,
\* whose recursive call goes through the wrapper again.
RECURSIVE factorial(_, _, _)
factorial(c, args, kwargs) ==
    LET key == MakeKey(args, kwargs)
        n == IF args # <<>> THEN args[1] ELSE kwargs[1][2]
    IN IF key \notin DOMAIN c THEN
           LET body == IF n <= 1
                       THEN [cache |-> c, ret |-> Returns(1), invoked |-> <<>>]
                       ELSE LET sub == factorial(c, <<n - 1>>, <<>>)
                            IN [cache |-> sub.cache, ret |-> Returns(n * sub.ret.value),
                                invoked |-> sub.invoked]
               c2 == Put(body.cache, key, body.ret.value)
           IN [cache |-> c2, ret |-> Returns(c2[key]),
               invoked |-> <<Invocation(args, kwargs, body.ret)>> \o body.invoked]
       ELSE [cache |-> c, ret |-> Returns(c[key]), invoked |-> <<>>]

\* A call as the log keeps it: the function, the arguments, what the call
\* returned or raised, and the invocations of the wrapped function it made.
MemoCalled(fn, call, w) ==
    [fn |-> fn, args |-> call.args, kwargs |-> call.kwargs,
     raised |-> w.ret.raised, value |-> w.ret.value, invoked |-> w.invoked]

\* @memoize def f(...): nothing cached, nothing called
memoize == cache = EmptyDict /\ factorialCache = EmptyDict /\ memoLog = <<>>

\* f(*args, **kwargs) on a memoized function f
CallWrapper ==
    /\ Len(memoLog) < MaxMemoCalls
    /\ \E call \in WrappedCalls, result \in FuncResults :
          LET w == wrapper(cache, call.args, call.kwargs, result)
          IN /\ cache' = w.cache
             /\ memoLog' = Append(memoLog, MemoCalled("f", call, w))
    /\ UNCHANGED <<factorialCache, notMemo>>

\* factorial(n)
CallFactorial ==
    /\ Len(memoLog) < MaxMemoCalls
    /\ \E call \in FactorialCalls :
          LET w == factorial(factorialCache, call.args, call.kwargs)
          IN /\ factorialCache' = w.cache
             /\ memoLog' = Append(memoLog, MemoCalled("factorial", call, w))
    /\ UNCHANGED <<cache, notMemo>>

\* ------------------------------------------ class_hierarchy.py: Document

\* The arguments of the calls: tags, contents, data keys and values.
Tags == {"important", "draft"}
DocumentContents == {"", "This is an important document", "Revised"}
DataKeys == {"pages"}
DataValues == {1, 2}

\* None
None == "None"

\* What the caller has seen of the document: the last call with its argument
\* and return value, the document before it, the number of update_content
\* calls, the argument of the last of them (the content given to __init__ when
\* there is none), and for every tag the last add_tag or remove_tag call.
DocumentCalled(op, arg, ret) ==
    [op |-> op, arg |-> arg, ret |-> ret, before |-> document,
     updates |-> documentLog.updates + (IF op = "update_content" THEN 1 ELSE 0),
     lastContent |-> IF op = "update_content" THEN arg ELSE documentLog.lastContent,
     lastTagCall |-> [t \in Tags |->
                        IF op \in {"add_tag", "remove_tag"} /\ arg = t THEN op
                        ELSE documentLog.lastTagCall[t]]]

\* doc = Document("doc1", "Important Document", "user1", content):
\* Entity.__init__, BaseResource.__init__, Resource.__init__, Document.__init__
NewDocument(c) ==
    /\ document = [id |-> "doc1", name |-> "Important Document", tags |-> {},
                   created_at |-> None, owner_id |-> "user1", data |-> EmptyDict,
                   resource_type |-> "document", content |-> c, version |-> 1]
    /\ documentLog = [op |-> "__init__", arg |-> c, ret |-> None, before |-> EmptyDict,
                      updates |-> 0, lastContent |-> c,
                      lastTagCall |-> [t \in Tags |-> "none"]]

\* A remove_tag that discards the tag and reports success.
remove_tag_discard ==
    /\ \E tag \in Tags :
          /\ document' = [document EXCEPT !.tags = @ \ {tag}]
          /\ documentLog' = DocumentCalled("remove_tag", tag, TRUE)
    /\ UNCHANGED notDocument

\* An update_content that counts a version only when the content changes.
update_content_if_changed ==
    /\ documentLog.updates < MaxUpdates
    /\ \E new_content \in DocumentContents :
          /\ document' = [document EXCEPT
                             !.content = new_content,
                             !.version = IF new_content = document.content THEN @ ELSE @ + 1]
          /\ documentLog' = DocumentCalled("update_content", new_content, None)
    /\ UNCHANGED notDocument

\* Entity.add_tag
add_tag ==
    /\ \E tag \in Tags :
          /\ document' = [document EXCEPT !.tags = @ \cup {tag}]
          /\ documentLog' = DocumentCalled("add_tag", tag, None)
    /\ UNCHANGED notDocument

\* Entity.remove_tag
remove_tag ==
    /\ \E tag \in Tags :
          IF tag \in document.tags
          THEN /\ document' = [document EXCEPT !.tags = @ \ {tag}]
               /\ documentLog' = DocumentCalled("remove_tag", tag, TRUE)
          ELSE /\ document' = document
               /\ documentLog' = DocumentCalled("remove_tag", tag, FALSE)
    /\ UNCHANGED notDocument

\* Entity.has_tag
has_tag ==
    /\ \E tag \in Tags :
          /\ document' = document
          /\ documentLog' = DocumentCalled("has_tag", tag, tag \in document.tags)
    /\ UNCHANGED notDocument

\* BaseResource.update_data
update_data ==
    /\ \E key \in DataKeys, value \in DataValues :
          /\ document' = [document EXCEPT !.data = Put(@, key, value)]
          /\ documentLog' = DocumentCalled("update_data", <<key, value>>, None)
    /\ UNCHANGED notDocument

\* BaseResource.get_data, default None
get_data ==
    /\ \E key \in DataKeys :
          /\ document' = document
          /\ documentLog' = DocumentCalled("get_data", key, Get(document.data, key, None))
    /\ UNCHANGED notDocument

\* Document.update_content
update_content ==
    /\ documentLog.updates < MaxUpdates
    /\ \E new_content \in DocumentContents :
          /\ document' = [document EXCEPT !.content = new_content, !.version = @ + 1]
          /\ documentLog' = DocumentCalled("update_content", new_content, None)
    /\ UNCHANGED notDocument

\* The methods that build a string return, in the model, the values the
\* f-string interpolates, in order; no content is longer than the 50 and 100
\* characters they cut it to.

\* Resource.get_display_name
get_display_name ==
    /\ document' = document
    /\ documentLog' = DocumentCalled("get_display_name", None,
                                     <<document.name, document.resource_type>>)
    /\ UNCHANGED notDocument

\* Document.to_printable_format, on top of Resource.to_printable_format
to_printable_format ==
    /\ document' = document
    /\ documentLog' = DocumentCalled("to_printable_format", None,
                          <<document.name, document.resource_type, document.owner_id,
                            document.data, document.version, document.content>>)
    /\ UNCHANGED notDocument

\* Document.to_html
to_html ==
    /\ document' = document
    /\ documentLog' = DocumentCalled("to_html", None,
                          <<document.name, document.version, document.content>>)
    /\ UNCHANGED notDocument

\* Document.get_search_terms, on top of Resource.get_search_terms
get_search_terms ==
    /\ document' = document
    /\ documentLog' = DocumentCalled("get_search_terms", None,
                          Append(<<document.id, document.name, document.resource_type>>,
                                 document.content))
    /\ UNCHANGED notDocument

\* -------------------------------------------- language_features.py: Person

\* The names and ages a Person is constructed with and assigned.
Names == {"", "Alice", "Bob"}
Ages == {-1, 0, 16, 17, 18, 25}

\* What the caller has seen of the person: the arguments of the constructor,
\* the last access with the value assigned, the exception it raised ("" for
\* none), the value it returned and the person before it.
PersonAccessed(op, arg, exc, ret) ==
    [initName |-> personLog.initName, initAge |-> personLog.initAge,
     op |-> op, arg |-> arg, exc |-> exc, ret |-> ret, before |-> person]

\* person = Person(name, age)
NewPerson(name, age) ==
    /\ person = [_name |-> name, _age |-> age]
    /\ personLog = [initName |-> name, initAge |-> age,
                    op |-> "__init__", arg |-> None, exc |-> "", ret |-> None,
                    before |-> EmptyDict]

\* An age setter that assigns before it validates.
age_setter_assign_first ==
    /\ \E value \in Ages :
          /\ person' = [person EXCEPT !._age = value]
          /\ personLog' = PersonAccessed("age.setter", value,
                                         IF value < 0 THEN "ValueError" ELSE "", None)
    /\ UNCHANGED notPerson

\* person.name
name_getter ==
    /\ person' = person
    /\ personLog' = PersonAccessed("name", None, "", person._name)
    /\ UNCHANGED notPerson

\* person.name = value
name_setter ==
    /\ \E value \in Names :
          IF value = ""
          THEN /\ person' = person
               /\ personLog' = PersonAccessed("name.setter", value, "ValueError", None)
          ELSE /\ person' = [person EXCEPT !._name = value]
               /\ personLog' = PersonAccessed("name.setter", value, "", None)
    /\ UNCHANGED notPerson

\* person.age
age_getter ==
    /\ person' = person
    /\ personLog' = PersonAccessed("age", None, "", person._age)
    /\ UNCHANGED notPerson

\* person.age = value
age_setter ==
    /\ \E value \in Ages :
          IF value < 0
          THEN /\ person' = person
               /\ personLog' = PersonAccessed("age.setter", value, "ValueError", None)
          ELSE /\ person' = [person EXCEPT !._age = value]
               /\ personLog' = PersonAccessed("age.setter", value, "", None)
    /\ UNCHANGED notPerson

\* person.is_adult
is_adult ==
    /\ person' = person
    /\ personLog' = PersonAccessed("is_adult", None, "", person._age >= 18)
    /\ UNCHANGED notPerson

\* ------------------- language_features.py: TypedProperty, RangeProperty

\* bool, list and None values, next to PyStr and PyInt
PyBool(b) == [t |-> "bool", s |-> "", n |-> IF b THEN 1 ELSE 0]
PyList(l) == [t |-> "list", s |-> "", n |-> 0, l |-> l]
PyNone == [t |-> "NoneType", s |-> "", n |-> 0]

\* isinstance(value, type): bool is a subclass of int
isinstance(value, type) == value.t = type \/ (value.t = "bool" /\ type = "int")

\* class TypedObject: the attributes and the type each TypedProperty is given
TypedObject == [name |-> "str", age |-> "int", scores |-> "list"]

\* A class with one RangeProperty, level = RangeProperty("level", min, max):
\* no class of the file has one.
RangedAttr == "level"

\* self.name = f"_{name}"
StorageName(name) == "_" \o name

\* Two instances of each class.
TypedInstances == {"typed_obj", "typed_obj2"}
RangedInstances == {"ranged", "ranged2"}

\* The values assigned.
TypedValues == {PyStr("Bob"), PyInt(30), PyBool(TRUE), PyList(<<85, 90, 95>>)}
RangeValues == {PyInt(-1), PyInt(0), PyInt(10), PyInt(11)}
RangeBounds == {[min_value |-> lo, max_value |-> hi] :
                    lo \in {PyNone, PyInt(0)}, hi \in {PyNone, PyInt(10)}}

\* What the caller has seen: the last access (the descriptor method, the
\* instance, the attribute, the value assigned, the exception raised, ""
\* for none, and the value returned), and for every instance and attribute
\* the value of the last assignment that raised nothing.
TypedAccessed(op, instance, attr, arg, exc, ret) ==
    [op |-> op, instance |-> instance, attr |-> attr, arg |-> arg, exc |-> exc, ret |-> ret,
     assigned |-> IF op \in {"TypedProperty.__set__", "RangeProperty.__set__"} /\ exc = ""
                  THEN [typedLog.assigned EXCEPT ![instance] = Put(@, attr, arg)]
                  ELSE typedLog.assigned]

\* The instances of one of the two classes, nothing assigned yet, and the
\* bounds its RangeProperty is given (the two classes share no state, so a
\* run constructs instances of one of them).
NewTypedObjects(instances, bounds) ==
    /\ typed = [attrs |-> [i \in instances |-> EmptyDict],
                min_value |-> bounds.min_value, max_value |-> bounds.max_value]
    /\ typedLog = [op |-> "__init__", instance |-> "", attr |-> "", arg |-> PyNone,
                   exc |-> "", ret |-> PyNone,
                   assigned |-> [i \in instances |-> EmptyDict]]

\* A __set__ that keeps the value on the descriptor, which the instances of
\* the class share, and not on the instance.
TypedProperty_set_on_descriptor ==
    /\ \E instance \in TypedInstances \cap DOMAIN typed.attrs,
             attr \in DOMAIN TypedObject, value \in TypedValues :
          IF ~isinstance(value, TypedObject[attr])
          THEN /\ typed' = typed
               /\ typedLog' = TypedAccessed("TypedProperty.__set__", instance, attr, value,
                                            "TypeError", PyNone)
          ELSE /\ typed' = [typed EXCEPT !.attrs =
                               [i \in DOMAIN @ |->
                                   IF i \in TypedInstances
                                   THEN Put(@[i], StorageName(attr), value) ELSE @[i]]]
               /\ typedLog' = TypedAccessed("TypedProperty.__set__", instance, attr, value,
                                            "", PyNone)
    /\ UNCHANGED notTyped

\* getattr(instance, self.name) of both __get__ methods: [exc, ret]
GetAttr(instance, storage) ==
    IF storage \in DOMAIN typed.attrs[instance]
    THEN [exc |-> "", ret |-> typed.attrs[instance][storage]]
    ELSE [exc |-> "AttributeError", ret |-> PyNone]

\* TypedProperty.__get__: instance.attr
TypedProperty_get ==
    /\ \E instance \in TypedInstances \cap DOMAIN typed.attrs, attr \in DOMAIN TypedObject :
          LET got == GetAttr(instance, StorageName(attr))
          IN /\ typed' = typed
             /\ typedLog' = TypedAccessed("TypedProperty.__get__", instance, attr, PyNone,
                                          got.exc, got.ret)
    /\ UNCHANGED notTyped

\* TypedProperty.__set__: instance.attr = value
TypedProperty_set ==
    /\ \E instance \in TypedInstances \cap DOMAIN typed.attrs,
             attr \in DOMAIN TypedObject, value \in TypedValues :
          IF ~isinstance(value, TypedObject[attr])
          THEN /\ typed' = typed
               /\ typedLog' = TypedAccessed("TypedProperty.__set__", instance, attr, value,
                                            "TypeError", PyNone)
          ELSE /\ typed' = [typed EXCEPT !.attrs[instance] = Put(@, StorageName(attr), value)]
               /\ typedLog' = TypedAccessed("TypedProperty.__set__", instance, attr, value,
                                            "", PyNone)
    /\ UNCHANGED notTyped

\* RangeProperty.__get__: instance.level
RangeProperty_get ==
    /\ \E instance \in RangedInstances \cap DOMAIN typed.attrs :
          LET got == GetAttr(instance, StorageName(RangedAttr))
          IN /\ typed' = typed
             /\ typedLog' = TypedAccessed("RangeProperty.__get__", instance, RangedAttr,
                                          PyNone, got.exc, got.ret)
    /\ UNCHANGED notTyped

\* RangeProperty.__set__: instance.level = value
RangeProperty_set ==
    /\ \E instance \in RangedInstances \cap DOMAIN typed.attrs, value \in RangeValues :
          IF \/ typed.min_value # PyNone /\ value.n < typed.min_value.n
             \/ typed.max_value # PyNone /\ value.n > typed.max_value.n
          THEN /\ typed' = typed
               /\ typedLog' = TypedAccessed("RangeProperty.__set__", instance, RangedAttr,
                                            value, "ValueError", PyNone)
          ELSE /\ typed' = [typed EXCEPT
                               !.attrs[instance] = Put(@, StorageName(RangedAttr), value)]
               /\ typedLog' = TypedAccessed("RangeProperty.__set__", instance, RangedAttr,
                                            value, "", PyNone)
    /\ UNCHANGED notTyped

\* --------------------------------- complex_functions.py: DataProcessor

\* A record of data: a dict as Python keeps it, its items in insertion
\* order, each a <<key, value>> pair, no key twice.
RecordKeys == <<"id", "tag">>
RecordValues == {1, 2}
Records ==
    {<<>>} \cup
    { << <<RecordKeys[i], v>> >> : i \in 1..Len(RecordKeys), v \in RecordValues } \cup
    { r \in { << <<RecordKeys[i], v>>, <<RecordKeys[j], w>> >> :
                  i \in 1..Len(RecordKeys), j \in 1..Len(RecordKeys),
                  v \in RecordValues, w \in RecordValues } :
        r[1][1] # r[2][1] }

\* The position of a key in the order of str: "id" < "tag".
KeyRank(k) == CHOOSE i \in 1..Len(RecordKeys) : RecordKeys[i] = k

\* tuple(item.items()): the items as the record keeps them
Items_unsorted(item) == item

\* tuple(sorted(item.items())): the items by key (no key occurs twice, so no
\* two values are compared)
RECURSIVE Items_sorted(_)
Items_sorted(item) ==
    IF item = <<>> THEN <<>>
    ELSE LET i == CHOOSE i \in 1..Len(item) :
                    \A j \in 1..Len(item) : KeyRank(item[i][1]) <= KeyRank(item[j][1])
         IN <<item[i]>> \o Items_sorted(SubSeq(item, 1, i - 1) \o SubSeq(item, i + 1, Len(item)))

\* The loop of process over the items of data left: processed_data.
RECURSIVE ProcessLoop(_, _, _)
ProcessLoop(data, seen, processed_data) ==
    IF data = <<>> THEN processed_data
    ELSE LET item == Head(data)
             item_tuple == Items_sorted(item)
         IN IF item_tuple \notin seen
            THEN ProcessLoop(Tail(data), seen \cup {item_tuple}, Append(processed_data, item))
            ELSE ProcessLoop(Tail(data), seen, processed_data)

\* The seconds process() measures.
ProcessingTimes == {0, 1}

\* processor = DataProcessor(data, case_sensitive)
NewDataProcessor(data, case_sensitive) ==
    /\ processor = [data |-> data, processed |-> FALSE, case_sensitive |-> case_sensitive,
                    processed_data |-> None, processing_time |-> None]
    /\ processorLog = [calls |-> 0, data |-> data, first |-> None]

\* processor.process()
process ==
    /\ processorLog.calls < MaxProcessCalls
    /\ \E seconds \in ProcessingTimes :
          processor' = [processor EXCEPT
                           !.processed_data = ProcessLoop(processor.data, {}, <<>>),
                           !.processed = TRUE,
                           !.processing_time = seconds]
    /\ processorLog' = [processorLog EXCEPT
                           !.calls = @ + 1,
                           !.first = IF processorLog.calls = 0
                                     THEN processor'.processed_data ELSE @]
    /\ UNCHANGED notProcessor

\* ----------------------------------------------------------------- at rest

\* The other programs as a specification that does not run them holds them.
CounterIdle == create_counter
MemoIdle == memoize
DocumentIdle == document = EmptyDict /\ documentLog = EmptyDict
PersonIdle == person = EmptyDict /\ personLog = EmptyDict
TypedIdle == typed = EmptyDict /\ typedLog = EmptyDict
ProcessorIdle == processor = EmptyDict /\ processorLog = EmptyDict

OthersIdle ==
    CounterIdle /\ MemoIdle /\ DocumentIdle /\ PersonIdle /\ TypedIdle /\ ProcessorIdle

\* ------------------------------------------------------- the state machine

NotCalled == [raise |-> NoRaise, results |-> EmptyDict, output |-> NoOutput]

\* A call whose validation fails reads neither the file nor the options; the
\* other inputs are then left at one value.
Init ==
    /\ exists \in BOOLEAN
    /\ configIsDict \in BOOLEAN
    /\ extension \in Extensions
    /\ content \in Contents(extension)
    /\ config \in Configs
    /\ writable \in BOOLEAN
    /\ (~exists \/ ~configIsDict) =>
          /\ extension = ".csv"
          /\ content = [kind |-> "unreadable"]
          /\ config = EmptyDict
          /\ writable
    /\ pcLarge = "ready"
    /\ outLarge = NotCalled
    /\ pcRefactored = "ready"
    /\ outRefactored = NotCalled
    /\ OthersIdle

inputs == <<exists, configIsDict, extension, content, config, writable>>

\* results = process_and_analyze_data(...) of large_function.py
CallLarge ==
    /\ pcLarge = "ready"
    /\ outLarge' = Large_process_and_analyze_data
    /\ pcLarge' = IF outLarge'.raise.raised THEN "raised" ELSE "returned"
    /\ UNCHANGED <<inputs, pcRefactored, outRefactored>>
    /\ UNCHANGED notPipeline

\* results = process_and_analyze_data(...) of refactored_function.py
CallRefactored ==
    /\ pcRefactored = "ready"
    /\ outRefactored' = Refactored_process_and_analyze_data
    /\ pcRefactored' = IF outRefactored'.raise.raised THEN "raised" ELSE "returned"
    /\ UNCHANGED <<inputs, pcLarge, outLarge>>
    /\ UNCHANGED notPipeline

Next == CallLarge \/ CallRefactored

Spec == Init /\ [][Next]_vars

\* The pipeline before any call, on one input: what the other specifications
\* hold it at.
PipelineIdle ==
    /\ exists = FALSE
    /\ configIsDict = TRUE
    /\ extension = ".csv"
    /\ content = [kind |-> "unreadable"]
    /\ config = EmptyDict
    /\ writable = TRUE
    /\ pcLarge = "ready"
    /\ outLarge = NotCalled
    /\ pcRefactored = "ready"
    /\ outRefactored = NotCalled

\* --------------------------------------------- the counter's state machine

InitCounter ==
    /\ create_counter
    /\ PipelineIdle /\ MemoIdle /\ DocumentIdle /\ PersonIdle /\ TypedIdle /\ ProcessorIdle

NextCounter == increment \/ decrement \/ get_count \/ reset

SpecCounter == InitCounter /\ [][NextCounter]_vars

\* ------------------------------- the memoized functions' state machine

InitMemo ==
    /\ memoize
    /\ PipelineIdle /\ CounterIdle /\ DocumentIdle /\ PersonIdle /\ TypedIdle /\ ProcessorIdle

NextMemo == CallWrapper \/ CallFactorial

SpecMemo == InitMemo /\ [][NextMemo]_vars

\* ------------------------------------------ the document's state machine

InitDocument ==
    /\ \E c \in DocumentContents : NewDocument(c)
    /\ PipelineIdle /\ CounterIdle /\ MemoIdle /\ PersonIdle /\ TypedIdle /\ ProcessorIdle

NextDocument ==
    \/ add_tag \/ remove_tag \/ has_tag
    \/ update_data \/ get_data
    \/ update_content
    \/ get_display_name \/ to_printable_format \/ to_html \/ get_search_terms

SpecDocument == InitDocument /\ [][NextDocument]_vars

\* -------------------------------------------- the person's state machine

\* __init__ validates nothing: a Person is constructed with any name and age.
InitPerson ==
    /\ \E name \in Names, age \in Ages : NewPerson(name, age)
    /\ PipelineIdle /\ CounterIdle /\ MemoIdle /\ DocumentIdle /\ TypedIdle /\ ProcessorIdle

NextPerson == name_getter \/ name_setter \/ age_getter \/ age_setter \/ is_adult

SpecPerson == InitPerson /\ [][NextPerson]_vars

\* ------------------------------------------ the descriptors' state machine

InitTyped ==
    /\ \/ NewTypedObjects(TypedInstances, [min_value |-> PyNone, max_value |-> PyNone])
       \/ \E bounds \in RangeBounds : NewTypedObjects(RangedInstances, bounds)
    /\ PipelineIdle /\ CounterIdle /\ MemoIdle /\ DocumentIdle /\ PersonIdle /\ ProcessorIdle

NextTyped ==
    TypedProperty_get \/ TypedProperty_set \/ RangeProperty_get \/ RangeProperty_set

SpecTyped == InitTyped /\ [][NextTyped]_vars

\* ------------------------------------- the data processor's state machine

InitProcessor ==
    /\ \E data \in SeqsUpTo(Records, MaxData), case_sensitive \in BOOLEAN :
          NewDataProcessor(data, case_sensitive)
    /\ PipelineIdle /\ CounterIdle /\ MemoIdle /\ DocumentIdle /\ PersonIdle /\ TypedIdle

NextProcessor == process

SpecProcessor == InitProcessor /\ [][NextProcessor]_vars

\* ------------------------------------------------------------------ claims

BothCalled == pcLarge # "ready" /\ pcRefactored # "ready"

\* C10: the refactored process_and_analyze_data behaves as the large one: for
\* every input file content, extension and config (the file exists and the
\* config is a dictionary), once both have been called on the same input,
\* both have returned, with the same results dictionary and the same output
\* data written.
C10_SameResultsAndOutput ==
    (BothCalled /\ exists /\ configIsDict) =>
        /\ pcLarge = "returned"
        /\ pcRefactored = "returned"
        /\ outLarge.results = outRefactored.results
        /\ outLarge.output = outRefactored.output

\* C11: the count of a counter is the number of increment calls minus the
\* number of decrement calls since the last reset (or since creation), every
\* call returns the count it leaves, and get_count leaves the count as it was.
C11_CountIsIncrementsMinusDecrements ==
    /\ count = counterLog.increments - counterLog.decrements
    /\ counterLog.op # "create_counter" => counterLog.ret = count
    /\ counterLog.op = "get_count" => count = counterLog.before
    /\ counterLog.op = "reset" => count = 0

\* The sixth call of __main__: get_count, after two increments and a
\* decrement, returns 1.
C11_Witness ==
    /\ counterLog.op = "get_count"
    /\ counterLog.calls = 6
    /\ counterLog.increments = 2
    /\ counterLog.decrements = 1
    /\ counterLog.ret = 1

\* The invocations of the wrapped function made during the logged calls of
\* fn, in order.
RECURSIVE InvocationsOf(_, _)
InvocationsOf(fn, log) ==
    IF log = <<>> THEN <<>>
    ELSE (IF Head(log).fn = fn THEN Head(log).invoked ELSE <<>>)
         \o InvocationsOf(fn, Tail(log))

\* The logged calls of fn, in order.
CallsOf(fn, log) == LET IsFn(c) == c.fn = fn IN SelectSeq(log, IsFn)

\* Two calls have the same key: the same positional arguments and the same
\* set of keyword name/value pairs.
SameKey(a, b) ==
    /\ a.args = b.args
    /\ {a.kwargs[i] : i \in 1..Len(a.kwargs)} = {b.kwargs[i] : i \in 1..Len(b.kwargs)}

MemoizedFunctions == {"f", "factorial"}

\* C12 as stated: over any sequence of calls the wrapped function is invoked
\* at most once for each distinct key, and every call with a key returns the
\* value computed by the first call with that key, whatever the order of its
\* keyword arguments.
C12_InvokedAtMostOncePerKey ==
    \A fn \in MemoizedFunctions :
        LET inv == InvocationsOf(fn, memoLog)
            calls == CallsOf(fn, memoLog)
        IN /\ \A i, j \in 1..Len(inv) : SameKey(inv[i], inv[j]) => i = j
           /\ \A i, j \in 1..Len(calls) :
                 (i < j /\ SameKey(calls[i], calls[j])) =>
                     /\ ~calls[i].raised /\ ~calls[j].raised
                     /\ calls[j].value = calls[i].value

\* C12 amended: the wrapped function returns at most once for each distinct
\* key: once an invocation for a key has returned, it is not invoked for that
\* key again, and every call with the key that returns, returns the value of
\* that invocation, whatever the order of its keyword arguments; a call
\* raises only what its own invocation of the wrapped function raised.
C12_ReturnsAtMostOncePerKey ==
    \A fn \in MemoizedFunctions :
        LET inv == InvocationsOf(fn, memoLog)
            calls == CallsOf(fn, memoLog)
        IN /\ \A i, j \in 1..Len(inv) :
                 (i < j /\ SameKey(inv[i], inv[j])) => inv[i].raised
           /\ \A j \in 1..Len(calls) :
                 IF calls[j].raised
                 THEN /\ calls[j].invoked # <<>>
                      /\ SameKey(calls[j].invoked[1], calls[j])
                      /\ calls[j].invoked[1].raised
                 ELSE \E i \in 1..Len(inv) :
                         /\ SameKey(inv[i], calls[j])
                         /\ ~inv[i].raised
                         /\ calls[j].value = inv[i].value

\* f(1, a=1, b=2) raises, f(1, b=2, a=1) then invokes f again and returns 10,
\* and f(1, a=1, b=2) returns 10 without invoking f.
C12_Witness ==
    /\ Len(memoLog) = 3
    /\ \A j \in 1..3 : memoLog[j].fn = "f" /\ memoLog[j].args = <<1>>
    /\ memoLog[1].kwargs = << <<"a", 1>>, <<"b", 2>> >> /\ memoLog[1].raised
    /\ memoLog[2].kwargs = << <<"b", 2>>, <<"a", 1>> >> /\ memoLog[2].invoked # <<>>
    /\ ~memoLog[2].raised /\ memoLog[2].value = 10
    /\ memoLog[3].kwargs = << <<"a", 1>>, <<"b", 2>> >> /\ memoLog[3].invoked = <<>>
    /\ ~memoLog[3].raised /\ memoLog[3].value = 10

\* A returned results dictionary reports its failure: a call that wrote no
\* output has status 'error', and status 'error' comes with a message.
FailureReported(out) ==
    /\ ~out.output.written => out.results["status"] = "error"
    /\ out.results["status"] = "error" <=> out.results["errors"] # <<>>

\* C13: neither version of process_and_analyze_data lets an exception reach
\* the caller: each call returns a results dictionary, and every failure is
\* reported in it as status 'error' with a message in errors.
C13_NoExceptionReachesCaller ==
    /\ pcLarge # "raised"
    /\ pcRefactored # "raised"
    /\ pcLarge = "returned" => FailureReported(outLarge)
    /\ pcRefactored = "returned" => FailureReported(outRefactored)
\* C14: has_tag(t) is true exactly when the last add_tag or remove_tag call
\* for t was add_tag; remove_tag(t) returns True exactly when t was present
\* before the call, and leaves the tags as they were when it returns False;
\* add_tag of a tag already present leaves the tags as they were.
C14_TagPresentIffLastCallAdded ==
    /\ \A t \in Tags : t \in document.tags <=> documentLog.lastTagCall[t] = "add_tag"
    /\ documentLog.op = "has_tag" =>
          /\ documentLog.ret = (documentLog.lastTagCall[documentLog.arg] = "add_tag")
          /\ document = documentLog.before
    /\ documentLog.op = "remove_tag" =>
          /\ documentLog.ret = (documentLog.arg \in documentLog.before.tags)
          /\ ~documentLog.ret => document.tags = documentLog.before.tags
    /\ (documentLog.op = "add_tag" /\ documentLog.arg \in documentLog.before.tags) =>
          document.tags = documentLog.before.tags

\* remove_tag("draft") returns False on a document tagged "important" only,
\* and leaves it as it was.
C14_Witness ==
    /\ documentLog.op = "remove_tag"
    /\ documentLog.arg = "draft"
    /\ documentLog.ret = FALSE
    /\ documentLog.before.tags = {"important"}
    /\ documentLog.before = document

\* C15: the version of a Document is 1 plus the number of update_content
\* calls made (1 after construction), its content is the argument of the
\* last of them, and no other method changes the version.
C15_VersionCountsUpdates ==
    /\ document.version = 1 + documentLog.updates
    /\ document.content = documentLog.lastContent
    /\ documentLog.op \notin {"__init__", "update_content"} =>
          document.version = documentLog.before.version

\* After two update_content calls, the last with "Revised", to_html shows
\* version 3 and that content.
C15_Witness ==
    /\ documentLog.op = "to_html"
    /\ documentLog.updates = 2
    /\ documentLog.ret[2] = 3
    /\ documentLog.ret[3] = "Revised"

\* C16: assigning an empty name or a negative age raises ValueError and
\* leaves the stored name and age as they were, any other assignment is
\* stored; so a Person constructed with a non-empty name and a non-negative
\* age keeps a non-empty name and a non-negative age, and is_adult is true
\* exactly when the age is at least 18.
C16_SettersValidate ==
    /\ personLog.op = "name.setter" =>
          IF personLog.arg = ""
          THEN personLog.exc = "ValueError" /\ person = personLog.before
          ELSE /\ personLog.exc = ""
               /\ person = [personLog.before EXCEPT !._name = personLog.arg]
    /\ personLog.op = "age.setter" =>
          IF personLog.arg < 0
          THEN personLog.exc = "ValueError" /\ person = personLog.before
          ELSE /\ personLog.exc = ""
               /\ person = [personLog.before EXCEPT !._age = personLog.arg]
    /\ (personLog.initName # "" /\ personLog.initAge >= 0) =>
          person._name # "" /\ person._age >= 0
    /\ personLog.op = "is_adult" =>
          /\ personLog.ret = (person._age >= 18)
          /\ person = personLog.before

\* Person("Alice", 25), whose age was set to 16 as in __main__: assigning -1
\* raises ValueError and the age stays 16.
C16_Witness ==
    /\ personLog.initName = "Alice" /\ personLog.initAge = 25
    /\ personLog.op = "age.setter"
    /\ personLog.arg = -1
    /\ personLog.exc = "ValueError"
    /\ person = [_name |-> "Alice", _age |-> 16]

\* An attribute no assignment has set.
Unset == [t |-> "unset", s |-> "", n |-> 0]

\* The value is an instance of the type TypedObject declares for the
\* attribute: a str for name, an int (or a bool) for age, a list for scores.
InstanceOfDeclared(attr, value) ==
    CASE attr = "name" -> value.t = "str"
      [] attr = "age" -> value.t \in {"int", "bool"}
      [] attr = "scores" -> value.t = "list"

\* The value is below min_value or above max_value, where there is one.
OutOfRange(value) ==
    \/ typed.min_value.t = "int" /\ value.n < typed.min_value.n
    \/ typed.max_value.t = "int" /\ value.n > typed.max_value.n

\* C17: TypedProperty.__set__ raises TypeError exactly for a value that is
\* not an instance of the declared type, RangeProperty.__set__ raises
\* ValueError exactly for a value below min_value or above max_value; every
\* instance holds, for every attribute, the value of the last assignment on
\* that instance that raised nothing (so a rejected assignment changes
\* nothing and an assignment on another instance is not seen), and a read
\* returns it.
C17_DescriptorsValidate ==
    /\ typedLog.op = "TypedProperty.__set__" =>
          typedLog.exc = IF InstanceOfDeclared(typedLog.attr, typedLog.arg)
                         THEN "" ELSE "TypeError"
    /\ typedLog.op = "RangeProperty.__set__" =>
          typedLog.exc = IF OutOfRange(typedLog.arg) THEN "ValueError" ELSE ""
    /\ \A i \in DOMAIN typed.attrs :
          \A attr \in (DOMAIN TypedObject) \cup {RangedAttr} :
              Get(typed.attrs[i], "_" \o attr, Unset) = Get(typedLog.assigned[i], attr, Unset)
    /\ typedLog.op \in {"TypedProperty.__get__", "RangeProperty.__get__"} =>
          LET last == Get(typedLog.assigned[typedLog.instance], typedLog.attr, Unset)
          IN last # Unset => typedLog.exc = "" /\ typedLog.ret = last

\* typed_obj.age = "Bob" raises TypeError while typed_obj holds age 30 and
\* typed_obj2 holds age True; or ranged.level = 11 raises ValueError while
\* ranged holds level 0 and ranged2 holds level 10, the bounds being 0 and 10.
C17_Witness ==
    \/ /\ typedLog.op = "TypedProperty.__set__"
       /\ typedLog.instance = "typed_obj" /\ typedLog.attr = "age"
       /\ typedLog.arg = PyStr("Bob") /\ typedLog.exc = "TypeError"
       /\ typed.attrs["typed_obj"] = [k \in {"_age"} |-> PyInt(30)]
       /\ typed.attrs["typed_obj2"] = [k \in {"_age"} |-> PyBool(TRUE)]
    \/ /\ typedLog.op = "RangeProperty.__set__"
       /\ typedLog.instance = "ranged"
       /\ typedLog.arg = PyInt(11) /\ typedLog.exc = "ValueError"
       /\ typed.attrs["ranged"] = [k \in {"_level"} |-> PyInt(0)]
       /\ typed.attrs["ranged2"] = [k \in {"_level"} |-> PyInt(10)]
       /\ typed.min_value = PyInt(0) /\ typed.max_value = PyInt(10)

\* The key-value pairs of a record, as a set.
ItemSet(record) == {record[i] : i \in 1..Len(record)}

\* The records of data that equal no earlier record as key-value sets, in
\* the order of data.
FirstOccurrences(data) ==
    LET F == {i \in 1..Len(data) :
                \A j \in 1..(i - 1) : ItemSet(data[j]) # ItemSet(data[i])}
    IN [k \in 1..Cardinality(F) |->
            data[CHOOSE i \in F : Cardinality({j \in F : j <= i}) = k]]

\* C18: after process(), processed_data holds one copy of each distinct
\* record of data (records equal as key-value sets), in the order of first
\* occurrence, processed is True and data is as it was given; a second call
\* leaves the same processed_data.
C18_ProcessKeepsFirstOccurrences ==
    /\ processorLog.calls = 0 => ~processor.processed
    /\ processorLog.calls > 0 =>
          /\ processor.processed
          /\ processor.data = processorLog.data
          /\ processor.processed_data = FirstOccurrences(processor.data)
          /\ processor.processed_data = processorLog.first

\* Two calls of process() on three records, the third the first one with
\* its keys in the other order: the first two are kept.
C18_Witness ==
    /\ processorLog.calls = 2
    /\ processor.data = << << <<"id", 1>>, <<"tag", 2>> >>,
                           << <<"id", 1>> >>,
                           << <<"tag", 2>>, <<"id", 1>> >> >>
    /\ processor.processed_data = << << <<"id", 1>>, <<"tag", 2>> >>, << <<"id", 1>> >> >>

====
